---- MODULE Spec2Model ----
(***************************************************************************)
(* Verification model of react-typescript-arsenal-tools:                   *)
(*   - the score aggregator (packages/core calculateHealthScore),          *)
(*   - the configuration tables and the rule gating of ReactWebAnalyzer,   *)
(*   - the per-file / per-rule evaluation with its try/catch structure,    *)
(*   - ClaudeService.enhanceAnalysis.                                      *)
(* Scores are kept in tenths (10.0 is 100, 9.5 is 95) so that the          *)
(* arithmetic stays in the integers.                                       *)
(***************************************************************************)
EXTENDS Integers, Sequences, FiniteSets, TLC

VARIABLES
  project,        \* the files getReactFiles lists, in traversal order
  config,         \* ReactWebAnalyzer.config (this.config)
  pc,             \* position of each analyzeProject call
  opts,           \* the options argument of each analyzeProject call
  found,          \* the findings local of each analyzeProject call
  result,         \* the AnalysisResult each call resolved with
  scoreFindings,  \* argument of a calculateHealthScore evaluation
  scoreResult,    \* its return value, in tenths
  scoreBy,        \* the implementation that computed it
  metrics,        \* the severity totals and category breakdown built for scoreFindings
  analysis,       \* the AnalysisResult the caller holds and passes to enhanceAnalysis
  enhInput,       \* the argument of the last enhanceAnalysis call
  enhCall,        \* how the last enhanceAnalysis call went
  cli,            \* a run of the CLI analyze command: its arguments, position, exit code
  parse,          \* a parseClaudeResponse evaluation: text, position, strategies tried
  lineCheck,      \* a line-based matcher applied to one source line
  extract         \* an extractInsightsFromText evaluation: text and result

vars ==
  <<project, config, pc, opts, found, result, scoreFindings, scoreResult, scoreBy,
    metrics, analysis, enhInput, enhCall, cli, parse, lineCheck, extract>>

analyzerVars == <<project, config, pc, opts, found, result>>
scoreVars == <<scoreFindings, scoreResult, scoreBy, metrics>>
enhanceVars == <<analysis, enhInput, enhCall>>
auxVars == <<cli, parse, lineCheck, extract>>

(***************************************************************************)
(* Bounds of the model.                                                    *)
(***************************************************************************)
MaxFindings == 5
MaxFiles == 2
MaxEnabledRules == 1
MaxCategories == 1
MaxLongFindings == 21

Max(a, b) == IF a >= b THEN a ELSE b

RECURSIVE SeqsUpTo(_, _)
SeqsUpTo(S, n) ==
  IF n = 0 THEN {<<>>}
  ELSE LET shorter == SeqsUpTo(S, n - 1)
       IN shorter \cup {Append(s, x) : s \in {t \in shorter : Len(t) = n - 1}, x \in S}

SubsetsUpTo(S, n) == {T \in SUBSET S : Cardinality(T) <= n}

Range(s) == {s[i] : i \in DOMAIN s}

Severities == {"error", "warning", "info"}

(***************************************************************************)
(* Score aggregator.                                                       *)
(***************************************************************************)
CountSeverity(findings, sev) ==
  Cardinality({i \in DOMAIN findings : findings[i].severity = sev})

\* Math.round(score * 10) / 10 for a score given in hundredths; the result in tenths.
RoundToTenths(hundredths) == (hundredths + 5) \div 10

\* The private calculateHealthScore of the ReactWebAnalyzer bundled in
\* tsup.config.ts: penalty 2 per error, 1 per warning, 0.5 per info, rounded.
ReactWebAnalyzer_calculateHealthScore(findings) ==
  IF Len(findings) = 0 THEN 100
  ELSE LET penalty == CountSeverity(findings, "error") * 200
                        + CountSeverity(findings, "warning") * 100
                        + CountSeverity(findings, "info") * 50
       IN RoundToTenths(Max(0, 1000 - penalty))

UnclampedHealthScore(findings) ==
  IF Len(findings) = 0 THEN 100
  ELSE 100 - Len(findings) * 5

DistinctFindingsHealthScore(findings) ==
  IF Len(findings) = 0 THEN 100
  ELSE Max(0, 100 - Cardinality({findings[i] : i \in DOMAIN findings}) * 5)

\* @rta/core calculateHealthScore: half a point per finding, whatever its severity.
calculateHealthScore(findings) ==
  IF Len(findings) = 0 THEN 100
  ELSE Max(0, 100 - Len(findings) * 5)

(***************************************************************************)
(* Rule catalog.                                                           *)
(***************************************************************************)
LegacyRuleOrder ==
  <<"react-anonymous-function", "react-missing-key", "typescript-any-usage",
    "react-missing-props-interface">>

EnhancedRuleOrder ==
  <<"useEffect-missing-deps", "useMemo-unnecessary", "useCallback-missing-deps",
    "useState-complex-object", "component-too-many-props", "inline-object-creation",
    "missing-react-memo", "heavy-computation-render", "missing-alt-text",
    "missing-aria-labels", "invalid-heading-order", "missing-focus-management">>

FallbackRuleOrder ==
  <<"useEffect-missing-deps", "missing-alt-text", "missing-aria-labels">>

LegacyRules == Range(LegacyRuleOrder)
EnhancedRules == Range(EnhancedRuleOrder)
Rules == LegacyRules \cup EnhancedRules

Rule(sev, cat) == [severity |-> sev, category |-> cat]

\* The four legacy descriptors declared inline by getSupportedPatterns.
LegacyCatalog ==
  [r \in LegacyRules |->
    CASE r = "react-anonymous-function" -> Rule("warning", "performance")
      [] r = "react-missing-key" -> Rule("error", "correctness")
      [] r = "typescript-any-usage" -> Rule("warning", "type-safety")
      [] r = "react-missing-props-interface" -> Rule("warning", "type-safety")]

\* EnhancedReactRules.getAllRules
getAllRules ==
  [r \in EnhancedRules |->
    CASE r = "useEffect-missing-deps" -> Rule("warning", "react-hooks")
      [] r = "useMemo-unnecessary" -> Rule("info", "react-hooks")
      [] r = "useCallback-missing-deps" -> Rule("warning", "react-hooks")
      [] r = "useState-complex-object" -> Rule("info", "react-hooks")
      [] r = "component-too-many-props" -> Rule("warning", "performance")
      [] r = "inline-object-creation" -> Rule("warning", "performance")
      [] r = "missing-react-memo" -> Rule("info", "performance")
      [] r = "heavy-computation-render" -> Rule("warning", "performance")
      [] r = "missing-alt-text" -> Rule("error", "accessibility")
      [] r = "missing-aria-labels" -> Rule("error", "accessibility")
      [] r = "invalid-heading-order" -> Rule("warning", "accessibility")
      [] r = "missing-focus-management" -> Rule("warning", "accessibility")]

\* ReactWebAnalyzer.getSupportedPatterns: legacy rules followed by the enhanced ones.
getSupportedPatterns ==
  [r \in Rules |-> IF r \in LegacyRules THEN LegacyCatalog[r] ELSE getAllRules[r]]

\* The severity literal each matcher writes into the findings it pushes.
MatcherSeverity ==
  [r \in Rules |->
    CASE r = "react-anonymous-function" -> "warning"
      [] r = "react-missing-key" -> "error"
      [] r = "typescript-any-usage" -> "warning"
      [] r = "react-missing-props-interface" -> "warning"
      [] r = "useEffect-missing-deps" -> "warning"
      [] r = "useMemo-unnecessary" -> "info"
      [] r = "useCallback-missing-deps" -> "warning"
      [] r = "useState-complex-object" -> "info"
      [] r = "component-too-many-props" -> "warning"
      [] r = "inline-object-creation" -> "warning"
      [] r = "missing-react-memo" -> "info"
      [] r = "heavy-computation-render" -> "warning"
      [] r = "missing-alt-text" -> "error"
      [] r = "missing-aria-labels" -> "error"
      [] r = "invalid-heading-order" -> "warning"
      [] r = "missing-focus-management" -> "warning"]

(***************************************************************************)
(* Configuration presets.                                                  *)
(***************************************************************************)
NoSeverity == "undefined"

On(sev) == [enabled |-> TRUE, severity |-> sev]
Off == [enabled |-> FALSE, severity |-> NoSeverity]

StrictRules ==
  [r \in Rules |->
    CASE r = "useEffect-missing-deps" -> On("error")
      [] r = "useMemo-unnecessary" -> On("warning")
      [] r = "useCallback-missing-deps" -> On("error")
      [] r = "useState-complex-object" -> On("warning")
      [] r = "component-too-many-props" -> On("error")
      [] r = "inline-object-creation" -> On("warning")
      [] r = "missing-react-memo" -> On("info")
      [] r = "heavy-computation-render" -> On("warning")
      [] r = "missing-alt-text" -> On("error")
      [] r = "missing-aria-labels" -> On("error")
      [] r = "invalid-heading-order" -> On("error")
      [] r = "missing-focus-management" -> On("warning")
      [] r = "react-anonymous-function" -> On("warning")
      [] r = "react-missing-key" -> On("error")
      [] r = "typescript-any-usage" -> On("error")
      [] r = "react-missing-props-interface" -> On("warning")]

\* A recommended table that leaves typescript-any-usage out.
RecommendedWithoutAnyUsage ==
  [r \in Rules |-> IF r = "typescript-any-usage" THEN Off ELSE StrictRules[r]]

RecommendedRules ==
  [r \in Rules |->
    CASE r = "useEffect-missing-deps" -> On("warning")
      [] r = "useMemo-unnecessary" -> On("info")
      [] r = "useCallback-missing-deps" -> On("warning")
      [] r = "useState-complex-object" -> On("info")
      [] r = "component-too-many-props" -> On("warning")
      [] r = "inline-object-creation" -> On("warning")
      [] r = "missing-react-memo" -> Off
      [] r = "heavy-computation-render" -> On("warning")
      [] r = "missing-alt-text" -> On("error")
      [] r = "missing-aria-labels" -> On("warning")
      [] r = "invalid-heading-order" -> On("warning")
      [] r = "missing-focus-management" -> On("info")
      [] r = "react-anonymous-function" -> On("warning")
      [] r = "react-missing-key" -> On("error")
      [] r = "typescript-any-usage" -> On("warning")
      [] r = "react-missing-props-interface" -> On("info")]

MinimalRules ==
  [r \in Rules |->
    CASE r = "useEffect-missing-deps" -> On("warning")
      [] r = "useMemo-unnecessary" -> Off
      [] r = "useCallback-missing-deps" -> Off
      [] r = "useState-complex-object" -> Off
      [] r = "component-too-many-props" -> Off
      [] r = "inline-object-creation" -> Off
      [] r = "missing-react-memo" -> Off
      [] r = "heavy-computation-render" -> Off
      [] r = "missing-alt-text" -> On("error")
      [] r = "missing-aria-labels" -> On("error")
      [] r = "invalid-heading-order" -> Off
      [] r = "missing-focus-management" -> Off
      [] r = "react-anonymous-function" -> Off
      [] r = "react-missing-key" -> On("error")
      [] r = "typescript-any-usage" -> On("warning")
      [] r = "react-missing-props-interface" -> Off]

CategoryNames ==
  {"react-hooks", "performance", "accessibility", "type-safety", "correctness",
   "best-practices"}

PresetNames == {"strict", "recommended", "minimal"}

PRESET_CONFIGS ==
  [p \in PresetNames |->
    CASE p = "strict" ->
           [categories |-> [c \in CategoryNames |-> TRUE], rules |-> StrictRules]
      [] p = "recommended" ->
           [categories |-> [c \in CategoryNames |-> TRUE], rules |-> RecommendedRules]
      [] p = "minimal" ->
           [categories |-> [c \in CategoryNames |->
                              c \notin {"performance", "best-practices"}],
            rules |-> MinimalRules]]

DEFAULT_CONFIG ==
  [presets |-> "recommended",
   categories |-> PRESET_CONFIGS["recommended"].categories,
   rules |-> PRESET_CONFIGS["recommended"].rules]

\* loadConfig returns DEFAULT_CONFIG on every path.
loadConfig == DEFAULT_CONFIG

\* Marker for a call that ended in a thrown exception instead of a value.
Thrown == [threw |-> TRUE]

\* applyPreset: PRESET_CONFIGS[preset] is undefined for a name that is no key of
\* the table, and reading .categories of undefined throws a TypeError.
applyPreset(preset) ==
  IF preset \in DOMAIN PRESET_CONFIGS
    THEN [threw |-> FALSE,
          value |-> [presets |-> preset,
                     categories |-> PRESET_CONFIGS[preset].categories,
                     rules |-> PRESET_CONFIGS[preset].rules]]
    ELSE Thrown

\* isRuleEnabled: ruleConfig?.enabled ?? true
isRuleEnabled(ruleId, cfg) ==
  IF ruleId \in DOMAIN cfg.rules THEN cfg.rules[ruleId].enabled ELSE TRUE

\* getRuleSeverity: ruleConfig?.severity ?? defaultSeverity
getRuleSeverity(ruleId, cfg, defaultSeverity) ==
  IF ruleId \in DOMAIN cfg.rules /\ cfg.rules[ruleId].severity # NoSeverity
    THEN cfg.rules[ruleId].severity
    ELSE defaultSeverity

(***************************************************************************)
(* Files and matchers.  A file is described by what the matchers do on its *)
(* content: hits is the set of rules whose pattern occurs in it, throwers  *)
(* the set of rules whose matcher throws on it, parses whether             *)
(* @typescript-eslint/parser accepts it and readable whether readFileSync  *)
(* succeeds.                                                               *)
(***************************************************************************)
\* The message literal of each matcher (templated messages with one instance).
MatcherMessage ==
  [r \in Rules |->
    CASE r = "react-anonymous-function" ->
           "Avoid anonymous functions in JSX props for better performance"
      [] r = "react-missing-key" -> "Add key prop to list items for better reconciliation"
      [] r = "typescript-any-usage" -> "Avoid using any type, use specific types instead"
      [] r = "react-missing-props-interface" ->
           "Component App should define TypeScript interface for props"
      [] r = "useEffect-missing-deps" -> "useEffect should include dependency array"
      [] r = "useMemo-unnecessary" -> "useMemo is unnecessary for simple primitive values"
      [] r = "useCallback-missing-deps" -> "useCallback should include dependency array"
      [] r = "useState-complex-object" ->
           "Complex state object detected, consider using useReducer"
      [] r = "component-too-many-props" -> "Component has 11 props, consider refactoring"
      [] r = "inline-object-creation" -> "Avoid inline object creation in JSX props"
      [] r = "missing-react-memo" -> "Consider wrapping App with React.memo"
      [] r = "heavy-computation-render" -> "Heavy computation detected in render method"
      [] r = "missing-alt-text" -> "Image element is missing alt attribute"
      [] r = "missing-aria-labels" -> "input element should have accessible labeling"
      [] r = "invalid-heading-order" -> "Heading h3 skips hierarchy levels"
      [] r = "missing-focus-management" ->
           "Modal/Dialog component should implement focus management"]

\* The suggestion literal of each matcher.
MatcherSuggestion ==
  [r \in Rules |->
    CASE r = "react-anonymous-function" ->
           "Extract function to useCallback or define outside render"
      [] r = "react-missing-key" -> "Add key={unique_identifier} to the JSX element"
      [] r = "typescript-any-usage" ->
           "Replace any with specific TypeScript interface or type"
      [] r = "react-missing-props-interface" ->
           "Create interface AppProps to define component props"
      [] r = "useEffect-missing-deps" -> "Add dependency array as second argument"
      [] r = "useMemo-unnecessary" -> "Remove useMemo for simple primitive values"
      [] r = "useCallback-missing-deps" ->
           "Add dependency array as second argument to useCallback"
      [] r = "useState-complex-object" ->
           "Replace complex useState with useReducer for better maintainability"
      [] r = "component-too-many-props" ->
           "Consider grouping related props into objects or using composition"
      [] r = "inline-object-creation" ->
           "Move object creation outside render or use useMemo"
      [] r = "missing-react-memo" ->
           "Wrap component with React.memo to prevent unnecessary re-renders"
      [] r = "heavy-computation-render" ->
           "Consider using useMemo to memoize expensive computations"
      [] r = "missing-alt-text" -> "Add meaningful alt text to describe the image content"
      [] r = "missing-aria-labels" ->
           "Add aria-label, aria-labelledby, or associate with a label element"
      [] r = "invalid-heading-order" -> "Use h2 instead of h3 to maintain proper hierarchy"
      [] r = "missing-focus-management" ->
           "Add focus management using useRef and focus() method or autoFocus prop"]

\* The object literal a matcher pushes for an occurrence of its pattern.
Finding(r, file) ==
  [ruleId |-> r, message |-> MatcherMessage[r], severity |-> MatcherSeverity[r],
   file |-> file.name, line |-> 1, column |-> 1, suggestion |-> MatcherSuggestion[r]]

Returned(fs) == [threw |-> FALSE, findings |-> fs]
Threw(fs) == [threw |-> TRUE, findings |-> fs]

\* One matcher (checkAnonymousFunctions, checkMissingKeys, ...) on one file.
Matcher(r, file) ==
  IF r \in file.throwers THEN Threw(<<>>)
  ELSE Returned(IF r \in file.hits THEN <<Finding(r, file)>> ELSE <<>>)

\* findings.push(...matcher(context)) for each rule of rs in order, onto acc; a
\* throwing matcher ends the sequence and leaves what was pushed before it.
RECURSIVE PushAll(_, _, _)
PushAll(rs, file, acc) ==
  IF rs = <<>> THEN Returned(acc)
  ELSE LET m == Matcher(Head(rs), file)
       IN IF m.threw THEN Threw(acc)
          ELSE PushAll(Tail(rs), file, acc \o m.findings)

\* EnhancedReactRules.fallbackAnalysis
fallbackAnalysis(file) == PushAll(FallbackRuleOrder, file, <<>>)

\* EnhancedReactRules.analyzeWithEnhancedRules; hasAst tells whether context.ast
\* is set on entry.  Without it the content is parsed again inside the try.
analyzeWithEnhancedRules(file, hasAst) ==
  LET main == IF ~hasAst /\ ~file.parses THEN Threw(<<>>)
              ELSE PushAll(EnhancedRuleOrder, file, <<>>)
  IN IF ~main.threw THEN main
     ELSE LET fb == fallbackAnalysis(file)
          IN IF fb.threw THEN Threw(<<>>)
             ELSE Returned(main.findings \o fb.findings)

NoCategoryShouldApply(ruleId, options, cfg) ==
  /\ ~(options.hasEnabledRules /\ ruleId \notin options.enabledRules)
  /\ isRuleEnabled(ruleId, cfg)

\* ReactWebAnalyzer.shouldApplyRule
shouldApplyRule(ruleId, options, cfg) ==
  /\ ~(options.hasEnabledRules /\ ruleId \notin options.enabledRules)
  /\ ~(/\ options.hasCategories
       /\ ruleId \in DOMAIN getSupportedPatterns
       /\ getSupportedPatterns[ruleId].category \notin options.categories)
  /\ isRuleEnabled(ruleId, cfg)

NoAllowListFilter(findings, options, cfg) ==
  LET keep(f) ==
        /\ ~(/\ options.hasCategories
             /\ f.ruleId \in DOMAIN getSupportedPatterns
             /\ getSupportedPatterns[f.ruleId].category \notin options.categories)
        /\ isRuleEnabled(f.ruleId, cfg)
  IN SelectSeq(findings, keep)

\* ReactWebAnalyzer.filterFindingsByOptions
filterFindingsByOptions(findings, options, cfg) ==
  LET keep(f) ==
        /\ ~(options.hasEnabledRules /\ f.ruleId \notin options.enabledRules)
        /\ ~(/\ options.hasCategories
             /\ f.ruleId \in DOMAIN getSupportedPatterns
             /\ getSupportedPatterns[f.ruleId].category \notin options.categories)
        /\ isRuleEnabled(f.ruleId, cfg)
  IN SelectSeq(findings, keep)

\* The four "if (this.shouldApplyRule(id, options)) findings.push(...check(context))"
\* statements of analyzeFile, which both its try block and its catch block run.
ApplyLegacyRules(file, options, cfg, acc) ==
  LET gated == SelectSeq(LegacyRuleOrder, LAMBDA r : shouldApplyRule(r, options, cfg))
  IN PushAll(gated, file, acc)

\* Legacy rules, then the enhanced rules filtered by the options, pushed onto acc.
RulePass(file, options, cfg, hasAst, acc) ==
  LET legacy == ApplyLegacyRules(file, options, cfg, acc)
  IN IF legacy.threw THEN legacy
     ELSE LET enh == analyzeWithEnhancedRules(file, hasAst)
          IN IF enh.threw THEN Threw(legacy.findings)
             ELSE Returned(legacy.findings
                           \o filterFindingsByOptions(enh.findings, options, cfg))

\* ReactWebAnalyzer.analyzeFile: the try block parses and runs RulePass; whatever
\* it throws, the catch block runs RulePass again without an AST on the same
\* findings array, and an exception of the catch block leaves the method.
analyzeFile(file, options, cfg) ==
  LET try == IF ~file.parses THEN Threw(<<>>)
             ELSE RulePass(file, options, cfg, TRUE, <<>>)
  IN IF ~try.threw THEN try
     ELSE RulePass(file, options, cfg, FALSE, try.findings)

PropagatingAnalyzeFiles(files, options, cfg) ==
  LET RECURSIVE loop(_, _)
      loop(rest, acc) ==
        IF rest = <<>> THEN Returned(acc)
        ELSE LET file == Head(rest)
                 r == IF ~file.readable THEN Threw(<<>>)
                      ELSE analyzeFile(file, options, cfg)
             IN IF r.threw THEN Threw(acc)
                ELSE loop(Tail(rest), acc \o r.findings)
  IN loop(files, <<>>)

\* ReactWebAnalyzer.analyzeFiles: each file in its own try/catch; a file whose
\* read or analysis throws is logged and adds nothing.
analyzeFiles(files, options, cfg) ==
  LET RECURSIVE loop(_, _)
      loop(rest, acc) ==
        IF rest = <<>> THEN Returned(acc)
        ELSE LET file == Head(rest)
                 r == IF ~file.readable THEN Threw(<<>>)
                      ELSE analyzeFile(file, options, cfg)
             IN loop(Tail(rest), IF r.threw THEN acc ELSE acc \o r.findings)
  IN loop(files, <<>>)

(***************************************************************************)
(* analyzeProject as a state machine.  The method is async: it runs up to  *)
(* "await this.detectProjectMetadata", later resumes with analyzeFiles     *)
(* (which has no await inside), and later builds the result.               *)
(***************************************************************************)
Calls == {"c1", "c2"}

NoPreset == "undefined"

NoOptions ==
  [preset |-> NoPreset, hasCategories |-> FALSE, categories |-> {},
   hasEnabledRules |-> FALSE, enabledRules |-> {}]

NoResult == [resolved |-> FALSE]

\* "rule?.category || 'other'" for the rule getSupportedPatterns().find returns.
CategoryOf(finding) ==
  IF finding.ruleId \in DOMAIN getSupportedPatterns
    THEN getSupportedPatterns[finding.ruleId].category
    ELSE "other"

\* ReactWebAnalyzer.groupFindingsByCategory: a record with one key per category
\* that occurs, each holding its findings in list order.
groupFindingsByCategory(findings) ==
  [c \in {CategoryOf(findings[i]) : i \in DOMAIN findings} |->
     SelectSeq(findings, LAMBDA f : CategoryOf(f) = c)]

\* The metrics literal of analyzeProject: severity totals and ruleBreakdown.
Metrics(findings) ==
  [built |-> TRUE,
   errorCount |-> CountSeverity(findings, "error"),
   warningCount |-> CountSeverity(findings, "warning"),
   infoCount |-> CountSeverity(findings, "info"),
   ruleBreakdown |-> groupFindingsByCategory(findings)]

NoMetrics == [built |-> FALSE]

\* The object literal analyzeProject returns (the fields the claims read).
AnalysisResult(findings) ==
  [resolved |-> TRUE,
   findings |-> findings,
   healthScore |-> calculateHealthScore(findings),
   errorCount |-> CountSeverity(findings, "error"),
   warningCount |-> CountSeverity(findings, "warning"),
   infoCount |-> CountSeverity(findings, "info"),
   ruleBreakdown |-> groupFindingsByCategory(findings)]

\* analyzeProject up to its first await: "if (options?.preset) this.config =
\* applyPreset(options.preset)".  An exception of applyPreset rejects the promise.
StartAnalyze(c, inputs) ==
  /\ pc[c] = "idle"
  /\ \E o \in inputs :
       /\ opts' = [opts EXCEPT ![c] = o]
       /\ IF o.preset = NoPreset
            THEN /\ config' = config
                 /\ pc' = [pc EXCEPT ![c] = "metadata"]
            ELSE LET applied == applyPreset(o.preset)
                 IN IF applied.threw
                      THEN /\ config' = config
                           /\ pc' = [pc EXCEPT ![c] = "rejected"]
                      ELSE /\ config' = applied.value
                           /\ pc' = [pc EXCEPT ![c] = "metadata"]
  /\ found' = [found EXCEPT ![c] = <<>>]
  /\ result' = [result EXCEPT ![c] = NoResult]
  /\ UNCHANGED <<project, scoreVars, enhanceVars, auxVars>>

\* "const findings = await this.analyzeFiles(projectPath, options)"
AnalyzeFilesStep(c) ==
  /\ pc[c] = "metadata"
  /\ LET r == analyzeFiles(project, opts[c], config)
     IN IF r.threw
          THEN /\ pc' = [pc EXCEPT ![c] = "rejected"]
               /\ found' = found
          ELSE /\ pc' = [pc EXCEPT ![c] = "files"]
               /\ found' = [found EXCEPT ![c] = r.findings]
  /\ UNCHANGED <<project, config, opts, result, scoreVars, enhanceVars, auxVars>>

\* calculateHealthScore(findings) and the return statement.
ReturnResult(c) ==
  /\ pc[c] = "files"
  /\ result' = [result EXCEPT ![c] = AnalysisResult(found[c])]
  /\ pc' = [pc EXCEPT ![c] = "done"]
  /\ UNCHANGED <<project, config, opts, found, scoreVars, enhanceVars, auxVars>>

\* The caller's await completes: it holds the result (or has handled the
\* rejection) and the analyzer instance, with its config, is free for a next call.
Release(c) ==
  /\ pc[c] \in {"done", "rejected"}
  /\ pc' = [pc EXCEPT ![c] = "idle"]
  /\ opts' = [opts EXCEPT ![c] = NoOptions]
  /\ found' = [found EXCEPT ![c] = <<>>]
  /\ result' = [result EXCEPT ![c] = NoResult]
  /\ UNCHANGED <<project, config, scoreVars, enhanceVars, auxVars>>

(***************************************************************************)
(* Inputs.                                                                 *)
(***************************************************************************)
\* What the CLI can pass as --preset: nothing, a preset, or any other string.
PresetInputs == {NoPreset} \cup PresetNames \cup {"bogus"}

CategoryInputs ==
  {[has |-> FALSE, set |-> {}]}
    \cup {[has |-> TRUE, set |-> S] : S \in SubsetsUpTo(CategoryNames, MaxCategories)}

EnabledRulesInputs ==
  {[has |-> FALSE, set |-> {}]}
    \cup {[has |-> TRUE, set |-> S] : S \in SubsetsUpTo(Rules, MaxEnabledRules)}

OptionInputs ==
  {[preset |-> p, hasCategories |-> c.has, categories |-> c.set,
    hasEnabledRules |-> e.has, enabledRules |-> e.set] :
     p \in PresetInputs, c \in CategoryInputs, e \in EnabledRulesInputs}

File(name, hits, parses, readable, throwers) ==
  [name |-> name, hits |-> hits, parses |-> parses, readable |-> readable,
   throwers |-> throwers]

\* One-file projects whose file triggers every rule or none, parsing or not.
GatingProjects ==
  {<<File("f1", hits, parses, TRUE, {})>> : hits \in {Rules, {}}, parses \in BOOLEAN}

InitAnalyzer ==
  /\ config = loadConfig
  /\ pc = [c \in Calls |-> "idle"]
  /\ opts = [c \in Calls |-> NoOptions]
  /\ found = [c \in Calls |-> <<>>]
  /\ result = [c \in Calls |-> NoResult]

InitScoreIdle ==
  /\ scoreFindings = <<>>
  /\ scoreResult = <<>>
  /\ scoreBy = "none"
  /\ metrics = NoMetrics

NoEnhanceCall ==
  [status |-> "none", failed |-> FALSE, model |-> "", kind |-> "", httpStatus |-> 0,
   calls |-> 0, requests |-> 0, suggestions |-> <<>>, transportMessage |-> ""]

InitEnhanceIdle ==
  /\ analysis = [resolved |-> FALSE]
  /\ enhInput = [resolved |-> FALSE]
  /\ enhCall = NoEnhanceCall

NoCli == [pc |-> "none"]
NoParse == [pc |-> "none"]
NoLineCheck == [pc |-> "none"]
NoExtract == [pc |-> "none"]

InitAuxIdle ==
  /\ cli = NoCli
  /\ parse = NoParse
  /\ lineCheck = NoLineCheck
  /\ extract = NoExtract

(***************************************************************************)
(* Spec: one analyzeProject call after another on one analyzer instance,   *)
(* with every combination of options.                                      *)
(***************************************************************************)
Init ==
  /\ project \in GatingProjects
  /\ InitAnalyzer
  /\ InitScoreIdle
  /\ InitEnhanceIdle
  /\ InitAuxIdle

Next ==
  \/ StartAnalyze("c1", OptionInputs)
  \/ AnalyzeFilesStep("c1")
  \/ ReturnResult("c1")
  \/ Release("c1")

Spec == Init /\ [][Next]_vars

(***************************************************************************)
(* SpecIsolation: projects of up to MaxFiles files, each of which may be   *)
(* unreadable, fail to parse, or make one matcher throw; analyzed under    *)
(* each preset.                                                            *)
(***************************************************************************)
FileNames == <<"f1", "f2", "f3", "f4", "f5", "f6">>

\* A legacy rule, an enhanced rule outside fallbackAnalysis, and one inside it.
ThrowerSamples == {"react-missing-key", "inline-object-creation", "missing-alt-text"}

IsolationFiles(name) ==
  {File(name, {}, TRUE, FALSE, {})}
    \cup {File(name, hits, parses, TRUE, throwers) :
            hits \in {Rules, {}},
            parses \in BOOLEAN,
            throwers \in {{}} \cup {{t} : t \in ThrowerSamples}}

IsolationProjects ==
  UNION {{p \in [1..n -> UNION {IsolationFiles(FileNames[i]) : i \in 1..n}] :
            \A i \in 1..n : p[i].name = FileNames[i]} : n \in 0..MaxFiles}

IsolationOptions ==
  {[NoOptions EXCEPT !.preset = p] : p \in {NoPreset} \cup PresetNames}

InitIsolation ==
  /\ project \in IsolationProjects
  /\ InitAnalyzer
  /\ InitScoreIdle
  /\ InitEnhanceIdle
  /\ InitAuxIdle

NextIsolation ==
  \/ StartAnalyze("c1", IsolationOptions)
  \/ AnalyzeFilesStep("c1")
  \/ ReturnResult("c1")
  \/ Release("c1")

SpecIsolation == InitIsolation /\ [][NextIsolation]_vars

(***************************************************************************)
(* SpecConcurrent: two analyzeProject calls in flight on one analyzer      *)
(* instance, as under Promise.all: each runs from one await to the next    *)
(* without interruption, and the calls interleave at the awaits.           *)
(***************************************************************************)
NextConcurrent ==
  \/ \E c \in Calls : StartAnalyze(c, IsolationOptions)
  \/ \E c \in Calls : AnalyzeFilesStep(c)
  \/ \E c \in Calls : ReturnResult(c)
  \/ \E c \in Calls : Release(c)

SpecConcurrent == Init /\ [][NextConcurrent]_vars

(***************************************************************************)
(* SpecScore: calculateHealthScore applied to every finding list of up to  *)
(* MaxFindings findings of the three severities.                           *)
(***************************************************************************)
ScoreFile == File("src/App.tsx", Rules, TRUE, TRUE, {})

\* One finding of each severity as the matchers produce them, and a warning of
\* a rule outside the catalog, as in the results the integration example builds.
UnknownRuleFinding ==
  [ruleId |-> "performance-heavy-computation",
   message |-> "Heavy computation in render function",
   severity |-> "warning", file |-> "src/components/Dashboard.tsx",
   line |-> 45, column |-> 12, suggestion |-> "<undefined>"]

ScoreSamples ==
  {Finding("react-missing-key", ScoreFile), Finding("typescript-any-usage", ScoreFile),
   Finding("missing-react-memo", ScoreFile), UnknownRuleFinding}

\* Lists long enough for the score to reach its floor: n findings, the
\* samples of the three severities in turn.
LongScoreLists ==
  LET turn == <<Finding("missing-react-memo", ScoreFile),
                Finding("typescript-any-usage", ScoreFile),
                Finding("react-missing-key", ScoreFile)>>
  IN {[k \in 1..n |-> turn[(k % 3) + 1]] : n \in MaxFindings..MaxLongFindings}

ScoreLists == SeqsUpTo(ScoreSamples, MaxFindings) \cup LongScoreLists

InitScore ==
  /\ project = <<>>
  /\ InitAnalyzer
  /\ scoreFindings \in ScoreLists
  /\ scoreResult = <<>>
  /\ scoreBy = "none"
  /\ metrics = NoMetrics
  /\ InitEnhanceIdle
  /\ InitAuxIdle

\* calculateHealthScore of @rta/core, as analyzeProject calls it.
CalculateScore ==
  /\ scoreResult = <<>>
  /\ scoreResult' = <<calculateHealthScore(scoreFindings)>>
  /\ scoreBy' = "core"
  /\ UNCHANGED <<analyzerVars, scoreFindings, metrics, enhanceVars, auxVars>>

\* this.calculateHealthScore of the bundled analyzer.
CalculateScoreBundled ==
  /\ scoreResult = <<>>
  /\ scoreResult' = <<ReactWebAnalyzer_calculateHealthScore(scoreFindings)>>
  /\ scoreBy' = "bundled"
  /\ UNCHANGED <<analyzerVars, scoreFindings, metrics, enhanceVars, auxVars>>

\* The metrics object of the report analyzeProject returns for these findings.
BuildMetrics ==
  /\ metrics = NoMetrics
  /\ metrics' = Metrics(scoreFindings)
  /\ UNCHANGED <<analyzerVars, scoreFindings, scoreResult, scoreBy, enhanceVars, auxVars>>

NextScore == CalculateScore \/ CalculateScoreBundled \/ BuildMetrics

SpecScore == InitScore /\ [][NextScore]_vars

(***************************************************************************)
(* ClaudeService.  Optional string fields hold Undefined when absent; the  *)
(* optional boolean aiEnhanced is a sequence of length 0 or 1.             *)
(***************************************************************************)
MaxEnhFindings == 2
MaxSuggestions == 2
MaxEnhanceCalls == 2

Undefined == "<undefined>"

\* JavaScript truthiness of an optional string.
Truthy(str) == str \notin {Undefined, ""}

\* JSON.parse results, and the two ways a strategy gets none: its pattern does
\* not match the text ("nomatch") or the matched text is no JSON ("invalid").
JsonValue(type, summary, hasSuggestions, suggestions, hasInsights) ==
  [type |-> type, summary |-> summary, hasSuggestions |-> hasSuggestions,
   suggestions |-> suggestions, hasInsights |-> hasInsights]

NoMatch == JsonValue("nomatch", Undefined, FALSE, <<>>, FALSE)
Invalid == JsonValue("invalid", Undefined, FALSE, <<>>, FALSE)
JsonNull == JsonValue("null", Undefined, FALSE, <<>>, FALSE)
JsonNumber == JsonValue("number", Undefined, FALSE, <<>>, FALSE)
JsonObject(summary, hasSuggestions, suggestions) ==
  JsonValue("object", summary, hasSuggestions, suggestions, FALSE)

Parses(j) == j.type \notin {"nomatch", "invalid"}

\* ClaudeService.extractInsightsFromText, by its result on the text.
extractInsightsFromText(text) == text.heuristic

\* ClaudeService.parseClaudeResponse: strategies 1 to 3 return whatever
\* JSON.parse yields; strategy 4 returns the first fragment that parses to a
\* truthy value with a truthy summary, suggestions or insights; else strategy 5.
parseClaudeResponse(text) ==
  LET expected(j) ==
        /\ Parses(j) /\ j.type # "null"
        /\ Truthy(j.summary) \/ j.hasSuggestions \/ j.hasInsights
      good == SelectSeq(text.fragments, expected)
  IN IF Parses(text.whole) THEN text.whole
     ELSE IF Parses(text.fenced) THEN text.fenced
     ELSE IF Parses(text.braces) THEN text.braces
     ELSE IF good # <<>> THEN Head(good)
     ELSE extractInsightsFromText(text)

Error(message) == [isError |-> TRUE, message |-> message]

Ok(value) == [threw |-> FALSE, value |-> value, error |-> Error("")]
Fail(error) == [threw |-> TRUE, value |-> JsonNull, error |-> error]

\* callClaude without the status mapping of its catch block.
UnmappedCallClaude(outcome) ==
  IF outcome.kind = "text" THEN Ok(parseClaudeResponse(outcome.text))
  ELSE Fail(outcome.error)

\* ClaudeService.callClaude on the outcome of anthropic.messages.create.
callClaude(outcome) ==
  IF outcome.kind = "text" THEN Ok(parseClaudeResponse(outcome.text))
  ELSE IF outcome.kind = "apiError" /\ outcome.status = 429
    THEN Fail(Error("Rate limit exceeded. Please try again later."))
  ELSE IF outcome.kind = "apiError" /\ outcome.status = 401
    THEN Fail(Error("Invalid API key. Please check your Claude API configuration."))
  ELSE IF outcome.kind = "apiError" /\ outcome.status = 400
    THEN Fail(Error("Invalid request. Please check the analysis parameters."))
  ELSE Fail(outcome.error)

\* enhanceFindings returning one finding per suggestion received.
PerSuggestionEnhanceFindings(findings, suggestions) ==
  [i \in (DOMAIN findings) \cap (DOMAIN suggestions) |->
    [findings[i] EXCEPT !.suggestion = suggestions[i]]]

\* ClaudeService.enhanceFindings
enhanceFindings(findings, suggestions) ==
  [i \in DOMAIN findings |->
    [findings[i] EXCEPT !.suggestion =
       IF i \in DOMAIN suggestions /\ Truthy(suggestions[i]) THEN suggestions[i]
       ELSE IF Truthy(findings[i].suggestion) THEN findings[i].suggestion
       ELSE findings[i].message]]

\* ClaudeService.buildAnalysisPrompt reads analysis.metadata.projectName first.
buildAnalysisPrompt(a) ==
  IF a.metadata = Undefined
    THEN Fail(Error("Cannot read properties of undefined (reading 'projectName')"))
    ELSE Ok(JsonNull)

\* "aiInsights.suggestions || []" for the value callClaude resolved with.
SuggestionsOf(aiInsights) ==
  IF aiInsights.hasSuggestions THEN aiInsights.suggestions ELSE <<>>

\* The try block of enhanceAnalysis: prompt, external call, merge.  requests:
\* the number of anthropic.messages.create calls it made.
EnhanceTry(a, service, outcome) ==
  LET prompt == buildAnalysisPrompt(a)
      aiInsights == callClaude(outcome)
  IN IF prompt.threw
       THEN [threw |-> TRUE, error |-> prompt.error, value |-> a, requests |-> 0]
     ELSE IF aiInsights.threw
       THEN [threw |-> TRUE, error |-> aiInsights.error, value |-> a, requests |-> 1]
     ELSE IF aiInsights.value.type = "null"
       THEN [threw |-> TRUE,
             error |-> Error("Cannot read properties of null (reading 'summary')"),
             value |-> a, requests |-> 1]
     ELSE [threw |-> FALSE, error |-> Error(""), requests |-> 1,
           value |->
             [a EXCEPT
                !.summary = IF Truthy(aiInsights.value.summary)
                              THEN aiInsights.value.summary ELSE a.summary,
                !.findings = enhanceFindings(a.findings,
                                             SuggestionsOf(aiInsights.value)),
                !.aiEnhanced = <<TRUE>>,
                !.aiModel = service.model]]

FlagKeepingEnhanceCatch(a, error) ==
  [a EXCEPT
     !.aiError = IF error.isError THEN error.message ELSE "Unknown error"]

DroppingEnhanceCatch(a, error) ==
  [a EXCEPT
     !.findings = <<>>,
     !.aiEnhanced = <<FALSE>>,
     !.aiError = IF error.isError THEN error.message ELSE "Unknown error"]

\* The catch block of enhanceAnalysis.
EnhanceCatch(a, error) ==
  [a EXCEPT
     !.aiEnhanced = <<FALSE>>,
     !.aiError = IF error.isError THEN error.message ELSE "Unknown error"]

UncaughtEnhanceAnalysis(a, service, outcome) ==
  IF ~Truthy(service.apiKey)
    THEN [threw |-> FALSE, failed |-> FALSE, requests |-> 0,
          value |-> [a EXCEPT !.aiEnhanced = <<FALSE>>]]
    ELSE LET try == EnhanceTry(a, service, outcome)
         IN [threw |-> try.threw, failed |-> try.threw, requests |-> try.requests,
             value |-> try.value]

\* ClaudeService.enhanceAnalysis.  threw: the promise rejects; failed: the catch
\* block produced the value.
enhanceAnalysis(a, service, outcome) ==
  IF ~Truthy(service.apiKey)
    THEN [threw |-> FALSE, failed |-> FALSE, requests |-> 0,
          value |-> [a EXCEPT !.aiEnhanced = <<FALSE>>]]
    ELSE LET try == EnhanceTry(a, service, outcome)
         IN IF try.threw
              THEN [threw |-> FALSE, failed |-> TRUE, requests |-> try.requests,
                    value |-> EnhanceCatch(a, try.error)]
              ELSE [threw |-> FALSE, failed |-> FALSE, requests |-> try.requests,
                    value |-> try.value]

(***************************************************************************)
(* SpecEnhance: enhanceAnalysis applied again and again to the result the  *)
(* caller holds, by services configured for different models, under every  *)
(* outcome of the external call.                                           *)
(***************************************************************************)
\* The constructor rejects an empty apiKey and defaults the model.
Services ==
  {[apiKey |-> "sk-ant-key", model |-> m] :
     m \in {"claude-3-5-haiku-latest", "claude-3-5-sonnet-latest"}}

AiSuggestions == <<"AI suggestion 1", "AI suggestion 2", "AI suggestion 3", "AI suggestion 4">>

\* The suggestion arrays a response carries: the first n AI suggestions, and
\* the same with an empty string in first place.
SuggestionLists ==
  LET full(n) == [i \in 1..n |-> AiSuggestions[i]]
  IN {full(n) : n \in 0..MaxSuggestions}
       \cup {[full(n) EXCEPT ![1] = ""] : n \in 1..MaxSuggestions}

Insights(summary, suggestions) == JsonObject(summary, TRUE, suggestions)

Text(whole, fenced, braces, fragments, heuristic) ==
  [whole |-> whole, fenced |-> fenced, braces |-> braces, fragments |-> fragments,
   heuristic |-> heuristic]

GenericInsights ==
  Insights("Analysis completed successfully.",
           <<"Review the code analysis results for improvement opportunities">>)

\* Response texts: pure JSON of several shapes, JSON in a code fence after
\* prose, JSON inside a paragraph, an unrelated fragment before the payload,
\* and prose without JSON.
ResponseTexts ==
  {Text(JsonObject(sm, TRUE, sg), NoMatch, NoMatch, <<>>, GenericInsights) :
      sm \in {"AI summary", ""}, sg \in SuggestionLists}
    \cup {Text(JsonObject("AI summary", FALSE, <<>>), NoMatch, NoMatch, <<>>,
               GenericInsights),
          Text(JsonNull, NoMatch, NoMatch, <<>>, GenericInsights),
          Text(JsonNumber, NoMatch, NoMatch, <<>>, GenericInsights),
          Text(Invalid, Insights("AI summary", <<AiSuggestions[1]>>), NoMatch, <<>>,
               GenericInsights),
          Text(Invalid, NoMatch, Insights("AI summary", <<AiSuggestions[1]>>), <<>>,
               GenericInsights),
          Text(Invalid, NoMatch, Invalid,
               <<JsonObject(Undefined, FALSE, <<>>),
                 Insights("AI summary", <<AiSuggestions[1]>>)>>,
               GenericInsights),
          Text(Invalid, NoMatch, NoMatch, <<>>,
               Insights("The project is in good shape overall",
                        <<"Add key props to every list item">>))}

NoText == Text(NoMatch, NoMatch, NoMatch, <<>>, GenericInsights)

Outcome(kind, status, error, text) ==
  [kind |-> kind, status |-> status, error |-> error, text |-> text]

\* What anthropic.messages.create can do: resolve with text, reject with an
\* APIError (status 0: none, as for a timeout or a lost connection), or reject
\* with a value that is no Error.
Outcomes ==
  {Outcome("text", 200, Error(""), t) : t \in ResponseTexts}
    \cup {Outcome("apiError", 401, Error("401 authentication_error"), NoText),
          Outcome("apiError", 429, Error("429 rate_limit_error"), NoText),
          Outcome("apiError", 400, Error("400 invalid_request_error"), NoText),
          Outcome("apiError", 500, Error("500 api_error"), NoText),
          Outcome("apiError", 0, Error("Request timed out."), NoText),
          Outcome("nonError", 0, [isError |-> FALSE, message |-> ""], NoText)}

EnhFile == File("src/App.tsx", Rules, TRUE, TRUE, {})

\* Findings as the matchers build them; every second one has no suggestion, as
\* in results assembled by hand in the integration example.
EnhFindingList ==
  [i \in 1..Len(LegacyRuleOrder) |->
     IF i % 2 = 1 THEN Finding(LegacyRuleOrder[i], EnhFile)
     ELSE [Finding(LegacyRuleOrder[i], EnhFile) EXCEPT !.suggestion = Undefined]]

\* AnalysisResult values as analyzeProject returns them (metadata can be
\* missing from results of the basic analyzer).
InitialAnalyses ==
  {[findings |-> SubSeq(EnhFindingList, 1, n),
    healthScore |-> calculateHealthScore(SubSeq(EnhFindingList, 1, n)),
    summary |-> "Found issues in React project",
    metadata |-> md,
    metrics |-> "metrics",
    platform |-> "web",
    timestamp |-> "2025-01-01T00:00:00.000Z",
    aiEnhanced |-> <<>>,
    aiModel |-> Undefined,
    aiError |-> Undefined] :
     n \in 0..MaxEnhFindings,
     md \in {"metadata", Undefined}}

InitEnhance ==
  /\ project = <<>>
  /\ InitAnalyzer
  /\ InitScoreIdle
  /\ analysis \in InitialAnalyses
  /\ enhInput = analysis
  /\ enhCall = NoEnhanceCall
  /\ InitAuxIdle

\* "result = await claudeService.enhanceAnalysis(result)"
EnhanceStep(services, outcomes) ==
  \E service \in services, outcome \in outcomes :
    LET r == enhanceAnalysis(analysis, service, outcome)
    IN /\ enhInput' = analysis
       /\ analysis' = IF r.threw THEN analysis ELSE r.value
       /\ enhCall' = [status |-> IF r.threw THEN "threw" ELSE "returned",
                      failed |-> r.failed,
                      model |-> service.model,
                      kind |-> outcome.kind,
                      httpStatus |-> outcome.status,
                      calls |-> enhCall.calls + 1,
                      requests |-> r.requests,
                      suggestions |->
                        IF outcome.kind = "text" /\ ~r.failed
                          THEN SuggestionsOf(callClaude(outcome).value) ELSE <<>>,
                      transportMessage |-> outcome.error.message]

Enhance ==
  /\ enhCall.calls < MaxEnhanceCalls
  /\ EnhanceStep(Services, Outcomes)
  /\ UNCHANGED <<analyzerVars, scoreVars, auxVars>>

NextEnhance == Enhance

SpecEnhance == InitEnhance /\ [][NextEnhance]_vars

(***************************************************************************)
(* SpecCli: one run of the CLI "analyze" command: the path check, the      *)
(* analyzeProject call on a new analyzer, the optional enhancement, the    *)
(* output, and the exit code.                                              *)
(***************************************************************************)
\* process.exit has not been called and the action has not returned.
Running == <<>>

CliRun(mode, pathExists, ai, hasKey, output, options) ==
  [pc |-> "start", mode |-> mode, pathExists |-> pathExists, ai |-> ai,
   hasKey |-> hasKey, output |-> output, options |-> options,
   reported |-> FALSE, exit |-> Running]

\* --preset has the default 'recommended', so analyzerOptions.preset is always set.
CliOptionInputs ==
  {[NoOptions EXCEPT !.preset = p] : p \in PresetNames \cup {"bogus"}}

\* Command lines: --list-rules / --list-categories or an analysis; the path
\* exists or not; --ai or not; CLAUDE_API_KEY set or not; output to stdout, to a
\* file, or to a file that cannot be written.
CliInputs ==
  {CliRun(mode, pathExists, ai, hasKey, output, options) :
     mode \in {"analyze", "listRules", "listCategories"},
     pathExists \in BOOLEAN, ai \in BOOLEAN, hasKey \in BOOLEAN,
     output \in {"stdout", "file", "unwritable"},
     options \in CliOptionInputs}

\* Projects with error findings, with warnings only, without findings, and with
\* a file that cannot be read.
CliProjects ==
  {<<File("f1", hits, TRUE, TRUE, {})>> : hits \in {Rules, {"typescript-any-usage"}, {}}}
    \cup {<<File("f1", {}, TRUE, FALSE, {})>>}

\* new ClaudeService({apiKey: process.env.CLAUDE_API_KEY}): the default model.
CliService == [apiKey |-> "sk-ant-key", model |-> "claude-3-5-haiku-latest"]

CliOutcomes ==
  {Outcome("text", 200, Error(""),
           Text(Insights("AI summary", <<AiSuggestions[1]>>), NoMatch, NoMatch, <<>>,
                GenericInsights)),
   Outcome("apiError", 401, Error("401 authentication_error"), NoText),
   Outcome("nonError", 0, [isError |-> FALSE, message |-> ""], NoText)}

\* The AnalysisResult the CLI holds after analyzeProject resolved.
CliAnalysis(r) ==
  [findings |-> r.findings,
   healthScore |-> r.healthScore,
   summary |-> "Found issues in React project",
   metadata |-> "metadata",
   metrics |-> "metrics",
   platform |-> "web",
   timestamp |-> "2025-01-01T00:00:00.000Z",
   aiEnhanced |-> <<>>,
   aiModel |-> Undefined,
   aiError |-> Undefined]

Exit(code) == [cli EXCEPT !.pc = "exited", !.exit = <<code>>]

\* The list options return from the action; a missing path calls process.exit(1).
CliStart ==
  /\ cli.pc = "start"
  /\ cli' = IF cli.mode \in {"listRules", "listCategories"} THEN Exit(0)
            ELSE IF ~cli.pathExists THEN Exit(1)
            ELSE [cli EXCEPT !.pc = "analyze"]
  /\ UNCHANGED <<analyzerVars, scoreVars, enhanceVars, parse, lineCheck, extract>>

\* "await analyzer.analyzeProject(projectPath, analyzerOptions)", step by step.
CliAnalyzeStart == cli.pc = "analyze" /\ StartAnalyze("c1", {cli.options})

CliAnalyzeFiles == cli.pc = "analyze" /\ AnalyzeFilesStep("c1")

CliAnalyzeReturn == cli.pc = "analyze" /\ ReturnResult("c1")

\* The await completes: a rejection goes to the catch block (exit 1), a result
\* goes on to the enhancement when --ai and the API key are both present.
CliResume ==
  /\ cli.pc = "analyze"
  /\ pc["c1"] \in {"done", "rejected"}
  /\ IF pc["c1"] = "rejected"
       THEN /\ cli' = Exit(1)
            /\ analysis' = analysis
       ELSE /\ cli' = [cli EXCEPT !.pc = IF cli.ai /\ cli.hasKey THEN "enhance"
                                         ELSE "output"]
            /\ analysis' = CliAnalysis(result["c1"])
  /\ UNCHANGED <<analyzerVars, scoreVars, enhInput, enhCall, parse, lineCheck, extract>>

\* "result = await claudeService.enhanceAnalysis(result)"; a rejection would go
\* to the catch block.
CliEnhance ==
  /\ cli.pc = "enhance"
  /\ EnhanceStep({CliService}, CliOutcomes)
  /\ cli' = IF enhCall'.status = "threw" THEN Exit(1) ELSE [cli EXCEPT !.pc = "output"]
  /\ UNCHANGED <<analyzerVars, scoreVars, parse, lineCheck, extract>>

\* formatOutput, writeFileSync or console.log, the summary, and
\* process.exit(hasErrors ? 1 : 0); an exception of writeFileSync goes to the
\* catch block.
CliOutput ==
  /\ cli.pc = "output"
  /\ LET hasErrors == \E i \in DOMAIN analysis.findings :
                        analysis.findings[i].severity = "error"
     IN cli' = IF cli.output = "unwritable" THEN Exit(1)
               ELSE [cli EXCEPT !.pc = "exited", !.reported = TRUE,
                                !.exit = <<IF hasErrors THEN 1 ELSE 0>>]
  /\ UNCHANGED <<analyzerVars, scoreVars, enhanceVars, parse, lineCheck, extract>>

InitCli ==
  /\ project \in CliProjects
  /\ InitAnalyzer
  /\ InitScoreIdle
  /\ InitEnhanceIdle
  /\ cli \in CliInputs
  /\ parse = NoParse
  /\ lineCheck = NoLineCheck
  /\ extract = NoExtract

NextCli ==
  \/ CliStart
  \/ CliAnalyzeStart
  \/ CliAnalyzeFiles
  \/ CliAnalyzeReturn
  \/ CliResume
  \/ CliEnhance
  \/ CliOutput

SpecCli == InitCli /\ [][NextCli]_vars

(***************************************************************************)
(* SpecLine: the line-based matchers applied to one source line.  A line   *)
(* is a sequence of fragments, each ending in a blank, so that no match of *)
(* a matcher's regular expressions spans two fragments; a fragment records *)
(* where each expression matches inside it.                                *)
(***************************************************************************)
MaxLineTokens == 3

NoMatchAt == 0 - 1

\* anyAt[p]: offset of the match of pattern p of checkAnyUsage in the text, or
\* NoMatchAt; anonBy: the patterns of checkAnonymousFunctions that match (at
\* offset 0); inline: the text that /\w+\s*=\s*\{[^}]+\}/g matches (at offset
\* 0), "" if none; lt: the text contains '<'; hook: it contains 'useMemo'.
Token(text, anyAt, anonBy, inline, lt, hook) ==
  [text |-> text, anyAt |-> anyAt, anonBy |-> anonBy, inline |-> inline,
   lt |-> lt, hook |-> hook]

NoAny == <<NoMatchAt, NoMatchAt, NoMatchAt, NoMatchAt>>

Tokens ==
  {Token("<div ", NoAny, {}, "", TRUE, FALSE),
   Token("props: any ", <<5, NoMatchAt, NoMatchAt, NoMatchAt>>, {}, "", FALSE, FALSE),
   Token("<any>value ", <<NoMatchAt, 0, NoMatchAt, NoMatchAt>>, {}, "", TRUE, FALSE),
   Token("as any ", <<NoMatchAt, NoMatchAt, 0, NoMatchAt>>, {}, "", FALSE, FALSE),
   Token("(e: any) ", <<2, NoMatchAt, NoMatchAt, 0>>, {}, "", FALSE, FALSE),
   Token("onClick={() => go()} ", NoAny, {1, 4}, "onClick={() => go()}", FALSE, FALSE),
   Token("onChange={() => go()} ", NoAny, {2, 4}, "onChange={() => go()}", FALSE, FALSE),
   Token("onSubmit={() => go()} ", NoAny, {3, 4}, "onSubmit={() => go()}", FALSE, FALSE),
   Token("onBlur={() => go()} ", NoAny, {4}, "onBlur={() => go()}", FALSE, FALSE),
   Token("style={{a: 1}} ", NoAny, {}, "style={{a: 1}", FALSE, FALSE),
   Token("data={d} ", NoAny, {}, "data={d}", FALSE, FALSE),
   Token("useMemo ", NoAny, {}, "", FALSE, TRUE)}

Lines == UNION {[1..n -> Tokens] : n \in 0..MaxLineTokens}

\* 0-based offset in the line of its i-th fragment.
RECURSIVE StartOf(_, _)
StartOf(line, i) ==
  IF i = 1 THEN 0 ELSE StartOf(line, i - 1) + Len(line[i - 1].text)

\* The first of a non-empty set of fragment indices: the leftmost match.
FirstToken(indices) == CHOOSE i \in indices : \A j \in indices : i <= j

LineFinding(ruleId, column) ==
  [ruleId |-> ruleId, severity |-> "warning", line |-> 1, column |-> column]

PatternOrder == <<1, 2, 3, 4>>

\* ReactWebAnalyzer.checkAnyUsage on one line: for each pattern in turn, one
\* finding if line.match(pattern) matches, at the index of that first match.
checkAnyUsage(line) ==
  LET matches(p) == \E i \in DOMAIN line : line[i].anyAt[p] # NoMatchAt
      index(p) ==
        LET i == FirstToken({j \in DOMAIN line : line[j].anyAt[p] # NoMatchAt})
        IN StartOf(line, i) + line[i].anyAt[p]
      matched == SelectSeq(PatternOrder, matches)
  IN [k \in DOMAIN matched |->
        LineFinding("typescript-any-usage", index(matched[k]) + 1)]

\* ReactWebAnalyzer.checkAnonymousFunctions on one line: for each pattern in
\* turn, one finding if pattern.test(line), at line.search(pattern).
checkAnonymousFunctions(line) ==
  LET test(p) == \E i \in DOMAIN line : p \in line[i].anonBy
      search(p) ==
        StartOf(line, FirstToken({j \in DOMAIN line : p \in line[j].anonBy}))
      matched == SelectSeq(PatternOrder, test)
  IN [k \in DOMAIN matched |->
        LineFinding("react-anonymous-function", search(matched[k]) + 1)]

\* The includes() conditions of checkInlineObjectCreation.
InlineObjectLine(line) ==
  /\ \E i \in DOMAIN line : line[i].lt
  /\ \E i \in DOMAIN line : line[i].inline # ""
  /\ ~\E i \in DOMAIN line : line[i].hook

\* EnhancedReactRules.checkInlineObjectCreation on one line: one finding per
\* match of the global expression, at line.indexOf(match).
checkInlineObjectCreation(line) ==
  LET HasInline(t) == t.inline # ""
      matches == SelectSeq(line, HasInline)
      indexOf(match) ==
        StartOf(line, FirstToken({j \in DOMAIN line : line[j].inline = match}))
  IN IF InlineObjectLine(line)
       THEN [k \in DOMAIN matches |->
               LineFinding("inline-object-creation", indexOf(matches[k].inline) + 1)]
       ELSE <<>>

\* The line with the findings the matcher returned for it.
Checked(matcher, findings) ==
  [lineCheck EXCEPT !.pc = "done", !.matcher = matcher, !.findings = findings]

CheckAnyUsage ==
  /\ lineCheck.pc = "ready"
  /\ lineCheck' = Checked("checkAnyUsage", checkAnyUsage(lineCheck.line))
  /\ UNCHANGED <<analyzerVars, scoreVars, enhanceVars, cli, parse, extract>>

CheckAnonymousFunctions ==
  /\ lineCheck.pc = "ready"
  /\ lineCheck' = Checked("checkAnonymousFunctions",
                          checkAnonymousFunctions(lineCheck.line))
  /\ UNCHANGED <<analyzerVars, scoreVars, enhanceVars, cli, parse, extract>>

CheckInlineObjectCreation ==
  /\ lineCheck.pc = "ready"
  /\ lineCheck' = Checked("checkInlineObjectCreation",
                          checkInlineObjectCreation(lineCheck.line))
  /\ UNCHANGED <<analyzerVars, scoreVars, enhanceVars, cli, parse, extract>>

InitLine ==
  /\ project = <<>>
  /\ InitAnalyzer
  /\ InitScoreIdle
  /\ InitEnhanceIdle
  /\ cli = NoCli
  /\ parse = NoParse
  /\ extract = NoExtract
  /\ lineCheck \in {[pc |-> "ready", matcher |-> "none", line |-> l,
                     findings |-> <<>>] : l \in Lines}

NextLine ==
  \/ CheckAnyUsage
  \/ CheckAnonymousFunctions
  \/ CheckInlineObjectCreation

SpecLine == InitLine /\ [][NextLine]_vars

(***************************************************************************)
(* SpecParse: parseClaudeResponse step by step on one response text, one   *)
(* step per strategy, recording the strategies it attempts.                *)
(***************************************************************************)
MaxFragments == 2

KeylessObject == JsonObject(Undefined, FALSE, <<>>)

InsightsOnlyObject == JsonValue("object", Undefined, FALSE, <<>>, TRUE)

\* What JSON.parse makes of a piece of a response that is no pure JSON.
ParsedPieces ==
  {Invalid, KeylessObject, InsightsOnlyObject,
   Insights("AI summary", <<AiSuggestions[1]>>),
   Insights("Summary of another object", <<>>)}

HeuristicResults ==
  {GenericInsights,
   Insights("The project is in good shape overall",
            <<"Add key props to every list item">>)}

FragmentLists == UNION {[1..n -> ParsedPieces] : n \in 1..MaxFragments}

\* Response texts.  Pure JSON: a number, null, or an object, which the brace
\* expressions match as a whole.  Other texts: without braces no expression
\* matches; with braces /\{[\s\S]*\}/ matches and the fragment expression finds
\* at least one fragment, and a code fence may hold an object.
ParseTexts ==
  {Text(j, NoMatch, NoMatch, <<>>, h) :
     j \in {JsonNull, JsonNumber, Invalid}, h \in HeuristicResults}
    \cup {Text(o, NoMatch, o, <<o>>, h) :
            o \in ParsedPieces \ {Invalid}, h \in HeuristicResults}
    \cup {Text(Invalid, fenced, braces, fragments, h) :
            fenced \in ParsedPieces \cup {NoMatch}, braces \in ParsedPieces,
            fragments \in FragmentLists, h \in HeuristicResults}

\* The strategies with the brace-delimited substring tried before the fence.
BracesFirstStrategy(n, text) ==
  LET expected(j) ==
        /\ Parses(j) /\ j.type # "null"
        /\ Truthy(j.summary) \/ j.hasSuggestions \/ j.hasInsights
      good == SelectSeq(text.fragments, expected)
  IN IF n = 1 THEN [ok |-> Parses(text.whole), value |-> text.whole]
     ELSE IF n = 2 THEN [ok |-> Parses(text.braces), value |-> text.braces]
     ELSE IF n = 3 THEN [ok |-> Parses(text.fenced), value |-> text.fenced]
     ELSE IF n = 4
       THEN [ok |-> good # <<>>, value |-> IF good # <<>> THEN Head(good) ELSE Invalid]
     ELSE [ok |-> TRUE, value |-> extractInsightsFromText(text)]

\* Strategy n of parseClaudeResponse on the text: ok if it returns, and then
\* the value it returns.
Strategy(n, text) ==
  LET expected(j) ==
        /\ Parses(j) /\ j.type # "null"
        /\ Truthy(j.summary) \/ j.hasSuggestions \/ j.hasInsights
      good == SelectSeq(text.fragments, expected)
  IN IF n = 1 THEN [ok |-> Parses(text.whole), value |-> text.whole]
     ELSE IF n = 2 THEN [ok |-> Parses(text.fenced), value |-> text.fenced]
     ELSE IF n = 3 THEN [ok |-> Parses(text.braces), value |-> text.braces]
     ELSE IF n = 4
       THEN [ok |-> good # <<>>, value |-> IF good # <<>> THEN Head(good) ELSE Invalid]
     ELSE [ok |-> TRUE, value |-> extractInsightsFromText(text)]

\* parseClaudeResponse after the code of strategy n: returned, or at the code
\* of the next strategy.
Attempt(n) ==
  LET r == Strategy(n, parse.text)
  IN [parse EXCEPT !.tried = Append(@, n),
                   !.pc = IF r.ok THEN "returned" ELSE "running",
                   !.next = IF r.ok THEN n ELSE n + 1,
                   !.value = IF r.ok THEN <<r.value>> ELSE <<>>]

\* Strategy 1: JSON.parse(text.trim())
TryWhole ==
  /\ parse.pc = "running" /\ parse.next = 1
  /\ parse' = Attempt(1)
  /\ UNCHANGED <<analyzerVars, scoreVars, enhanceVars, cli, lineCheck, extract>>

\* Strategy 2: the first fenced code block
TryFenced ==
  /\ parse.pc = "running" /\ parse.next = 2
  /\ parse' = Attempt(2)
  /\ UNCHANGED <<analyzerVars, scoreVars, enhanceVars, cli, lineCheck, extract>>

\* Strategy 3: first '{' to last '}'
TryBraces ==
  /\ parse.pc = "running" /\ parse.next = 3
  /\ parse' = Attempt(3)
  /\ UNCHANGED <<analyzerVars, scoreVars, enhanceVars, cli, lineCheck, extract>>

\* Strategy 4: the first fragment that parses and has an expected key
TryFragments ==
  /\ parse.pc = "running" /\ parse.next = 4
  /\ parse' = Attempt(4)
  /\ UNCHANGED <<analyzerVars, scoreVars, enhanceVars, cli, lineCheck, extract>>

\* Strategy 5: extractInsightsFromText
Fallback ==
  /\ parse.pc = "running" /\ parse.next = 5
  /\ parse' = Attempt(5)
  /\ UNCHANGED <<analyzerVars, scoreVars, enhanceVars, cli, lineCheck, extract>>

InitParse ==
  /\ project = <<>>
  /\ InitAnalyzer
  /\ InitScoreIdle
  /\ InitEnhanceIdle
  /\ cli = NoCli
  /\ lineCheck = NoLineCheck
  /\ extract = NoExtract
  /\ parse \in {[pc |-> "running", next |-> 1, text |-> t, tried |-> <<>>,
                 value |-> <<>>] : t \in ParseTexts}

NextParse ==
  \/ TryWhole
  \/ TryFenced
  \/ TryBraces
  \/ TryFragments
  \/ Fallback

SpecParse == InitParse /\ [][NextParse]_vars

(***************************************************************************)
(* SpecExtract: extractInsightsFromText on one text.  A string is kept by  *)
(* its length, split in the leading characters that /^[^\w]*/ removes, the *)
(* characters that stay, and the trailing ones that /[^\w.!?]*$/ removes.  *)
(* A text is given by what each expression of the function captures in it.*)
(***************************************************************************)
MaxPieces == 4

Str(lead, core, trail) == [lead |-> lead, core |-> core, trail |-> trail]

Length(str) == str.lead + str.core + str.trail

\* Captured pieces: a sentence, a short word in brackets, a short word, a
\* quoted phrase with a trailing comma, a long paragraph.
Pieces == {Str(0, 30, 0), Str(3, 4, 2), Str(0, 4, 0), Str(2, 12, 1), Str(0, 250, 0)}

PieceLists == UNION {[1..n -> Pieces] : n \in 0..MaxPieces}

\* match[1] of a summary pattern: its trimmed length and the number of
\* characters in it that replace(/[",]/g, '') removes.
Capture(present, len, marks) == [present |-> present, len |-> len, marks |-> marks]

NoCapture == Capture(FALSE, 0, 0)

Captures ==
  {NoCapture, Capture(TRUE, 8, 0), Capture(TRUE, 40, 2), Capture(TRUE, 201, 2),
   Capture(TRUE, 201, 0), Capture(TRUE, 300, 0)}

\* A text in which /summary[":]\s*["']([^"']+)["']/i matches is also matched by
\* /summary[":]\s*([^,\n]+)/i.
SummaryCaptures ==
  {c \in [1..4 -> Captures] : c[1].present => c[2].present}

ExtractText(summaries, jsonMatch, jsonPieces, bullets, recommendations, paragraphs) ==
  [summaries |-> summaries, jsonMatch |-> jsonMatch, jsonPieces |-> jsonPieces,
   bullets |-> bullets, recommendations |-> recommendations,
   paragraphs |-> paragraphs]

NoCaptures == [i \in 1..4 |-> NoCapture]

\* Texts with every combination of summary captures and one bullet line.
SummaryTexts ==
  {ExtractText(c, FALSE, <<>>, <<Str(0, 30, 0)>>, <<>>, <<>>) : c \in SummaryCaptures}

\* Texts in which one of the four sources of suggestions (1: the JSON-like
\* array, 2: bullets, 3: recommendations, 4: paragraphs) holds the pieces; for
\* the sources after the first, also behind a matched "suggestions: [...]"
\* whose only piece is too short.
SuggestionTexts ==
  {ExtractText(NoCaptures,
               source = 1 \/ j,
               IF source = 1 THEN l ELSE IF j THEN <<Str(0, 4, 0)>> ELSE <<>>,
               IF source = 2 THEN l ELSE <<>>,
               IF source = 3 THEN l ELSE <<>>,
               IF source = 4 THEN l ELSE <<>>) :
     source \in 1..4, j \in BOOLEAN, l \in PieceLists}

\* slice(0, 3)
Slice3(seq) == SubSeq(seq, 1, IF Len(seq) < 3 THEN Len(seq) ELSE 3)

DefaultSummary == Len("Analysis completed successfully.")

\* The summary loop: the first pattern whose capture is longer than 10
\* characters gives the summary, stripped of quotes and commas.
ExtractedSummary(text) ==
  LET usable == {i \in 1..4 : text.summaries[i].present /\ text.summaries[i].len > 10}
  IN IF usable = {} THEN DefaultSummary
     ELSE LET i == CHOOSE k \in usable : \A j \in usable : k <= j
          IN text.summaries[i].len - text.summaries[i].marks

\* The suggestions array before the clean-up: the JSON-like array, else
\* bullets, else recommendations, else paragraphs, else a generic suggestion.
ExtractedSuggestions(text) ==
  LET Over5(str) == Length(str) > 5
      Over10(str) == Length(str) > 10
      Paragraph(str) == Length(str) > 20 /\ Length(str) < 200
      fromJson == IF text.jsonMatch THEN Slice3(SelectSeq(text.jsonPieces, Over5))
                  ELSE <<>>
      fromBullets == IF fromJson = <<>> THEN Slice3(SelectSeq(text.bullets, Over10))
                     ELSE fromJson
      fromRecommendations ==
        IF fromBullets = <<>> THEN Slice3(SelectSeq(text.recommendations, Over10))
        ELSE fromBullets
      fromParagraphs ==
        IF fromRecommendations = <<>>
          THEN Slice3(SelectSeq(text.paragraphs, Paragraph))
          ELSE fromRecommendations
  IN IF fromParagraphs = <<>>
       THEN <<Str(0, Len("Review the code analysis results for improvement opportunities"), 0)>>
       ELSE fromParagraphs

\* cleanSuggestions: both replace calls, the length filter, slice(0, 3).
CleanSuggestions(suggestions) ==
  LET cleaned == [i \in DOMAIN suggestions |-> Str(0, suggestions[i].core, 0)]
      Over5(str) == Length(str) > 5
  IN Slice3(SelectSeq(cleaned, Over5))

NoFinalFallback(clean) == clean

\* "cleanSuggestions.length > 0 ? cleanSuggestions : [...]"
FinalSuggestions(clean) ==
  IF Len(clean) > 0 THEN clean
  ELSE <<Str(0, Len("Review findings for improvement opportunities"), 0)>>

\* "summary.length > 200 ? summary.substring(0, 197) + '...' : summary"
FinalSummary(len) ==
  IF len > 200 THEN [len |-> 197 + Len("..."), ellipsis |-> TRUE]
  ELSE [len |-> len, ellipsis |-> FALSE]

\* ClaudeService.extractInsightsFromText, on lengths.
extractInsightsFromLengths(text) ==
  [summary |-> FinalSummary(ExtractedSummary(text)),
   suggestions |-> FinalSuggestions(CleanSuggestions(ExtractedSuggestions(text)))]

ExtractInsights ==
  /\ extract.pc = "ready"
  /\ extract' = [extract EXCEPT !.pc = "done",
                                !.result = extractInsightsFromLengths(extract.text)]
  /\ UNCHANGED <<analyzerVars, scoreVars, enhanceVars, cli, parse, lineCheck>>

NoInsights == [summary |-> FinalSummary(0), suggestions |-> <<>>]

InitExtract ==
  /\ project = <<>>
  /\ InitAnalyzer
  /\ InitScoreIdle
  /\ InitEnhanceIdle
  /\ cli = NoCli
  /\ parse = NoParse
  /\ lineCheck = NoLineCheck
  /\ \/ extract \in {[pc |-> "ready", text |-> t, result |-> NoInsights] :
                       t \in SummaryTexts}
     \/ extract \in {[pc |-> "ready", text |-> t, result |-> NoInsights] :
                       t \in SuggestionTexts}

NextExtract == ExtractInsights

SpecExtract == InitExtract /\ [][NextExtract]_vars

(***************************************************************************)
(* Claims.                                                                 *)
(***************************************************************************)
ReportedRules(r) == {r.findings[i].ruleId : i \in DOMAIN r.findings}

\* Every file of the project is read, parsed and matched without an exception.
CleanProject ==
  \A i \in DOMAIN project :
    project[i].readable /\ project[i].parses /\ project[i].throwers = {}

ProjectHits == UNION {project[i].hits : i \in DOMAIN project}

\* C1: the score of a finding list with e errors, w warnings and i infos is
\* max(0, 10 - (2e + w + 0.5i)), here in tenths: max(0, 100 - (20e + 10w + 5i)).
C1_SeverityWeightedScore ==
  scoreBy = "core" =>
    scoreResult[1] = Max(0, 100 - (20 * CountSeverity(scoreFindings, "error")
                                   + 10 * CountSeverity(scoreFindings, "warning")
                                   + 5 * CountSeverity(scoreFindings, "info")))

\* C4: under preset minimal with an allow-list L, the rules reported on a clean
\* project are exactly the rules of L whose pattern occurs in it, whatever the
\* minimal table says about them.
C4_MinimalAllowListExact ==
  \A c \in Calls :
    (/\ pc[c] = "done"
     /\ opts[c].preset = "minimal"
     /\ opts[c].hasEnabledRules
     /\ ~opts[c].hasCategories
     /\ CleanProject)
      => ReportedRules(result[c]) = opts[c].enabledRules \cap ProjectHits

\* C5: with an enabledRules allow-list no finding of the result has a ruleId
\* outside the list, for every preset and every categories option.
C5_AllowListRespected ==
  \A c \in Calls :
    (pc[c] = "done" /\ opts[c].hasEnabledRules)
      => ReportedRules(result[c]) \subseteq opts[c].enabledRules

\* A run with an allow-list that reports something although the project also
\* triggers, outside the list, a legacy and an enhanced rule the config enables.
C5_Witness ==
  \E c \in Calls :
    /\ pc[c] = "done"
    /\ opts[c].hasEnabledRules
    /\ result[c].findings # <<>>
    /\ CleanProject
    /\ \E l \in LegacyRules \cap ProjectHits, e \in EnhancedRules \cap ProjectHits :
         /\ {l, e} \cap opts[c].enabledRules = {}
         /\ isRuleEnabled(l, config) /\ isRuleEnabled(e, config)

\* C6: with a categories allow-list no finding of the result belongs to a rule
\* whose catalog category is outside the list, for every preset.
C6_CategoriesRespected ==
  \A c \in Calls :
    (pc[c] = "done" /\ opts[c].hasCategories)
      => \A r \in ReportedRules(result[c]) :
           getSupportedPatterns[r].category \in opts[c].categories

\* A run with a categories list that reports something although the project also
\* triggers an enabled legacy rule and an enabled enhanced rule of other categories.
C6_Witness ==
  \E c \in Calls :
    /\ pc[c] = "done"
    /\ opts[c].hasCategories
    /\ ~opts[c].hasEnabledRules
    /\ result[c].findings # <<>>
    /\ CleanProject
    /\ \E l \in LegacyRules \cap ProjectHits, e \in EnhancedRules \cap ProjectHits :
         /\ getSupportedPatterns[l].category \notin opts[c].categories
         /\ getSupportedPatterns[e].category \notin opts[c].categories
         /\ isRuleEnabled(l, config) /\ isRuleEnabled(e, config)

\* C7: every finding carries the effective severity of its rule under the active
\* configuration: the config's severity when it has one, else the catalog default.
C7_EffectiveSeverity ==
  \A c \in Calls :
    pc[c] = "done" =>
      \A i \in DOMAIN result[c].findings :
        LET f == result[c].findings[i]
        IN f.severity = getRuleSeverity(f.ruleId, config,
                                        getSupportedPatterns[f.ruleId].severity)

\* C8: a call with a preset name that is none of minimal, recommended, strict
\* is never rejected, and it runs under the recommended configuration.
C8_UnknownPresetFallsBack ==
  \A c \in Calls :
    (pc[c] # "idle" /\ opts[c].preset \notin PresetNames \cup {NoPreset})
      => pc[c] # "rejected" /\ config.presets = "recommended"

\* The findings of a result that are located in the file called name.
FindingsIn(r, name) == SelectSeq(r.findings, LAMBDA f : f.file = name)

\* The matcher of rule t runs on the file under these options and throws.
MatcherThrows(file, t, options, cfg) ==
  /\ file.readable /\ file.parses
  /\ t \in file.throwers
  /\ t \in EnhancedRules \/ shouldApplyRule(t, options, cfg)

\* The file with rule t disabled: its matcher neither runs nor throws.
WithoutRule(file, t) ==
  [file EXCEPT !.throwers = @ \ {t}, !.hits = @ \ {t}]

\* C9: when the matcher of one rule throws on file A, the result still holds for
\* file A exactly the findings the other rules produce with that rule disabled.
C9_SameFileIsolation ==
  \A c \in Calls :
    pc[c] = "done" =>
      \A i \in DOMAIN project :
        \A t \in project[i].throwers :
          MatcherThrows(project[i], t, opts[c], config)
            => FindingsIn(result[c], project[i].name)
                 = analyzeFile(WithoutRule(project[i], t), opts[c], config).findings

\* Reading or analyzing the file throws out of analyzeFile.
FileFails(file, options, cfg) ==
  ~file.readable \/ analyzeFile(file, options, cfg).threw

\* C10: a file whose read or analysis throws contributes no finding, every other
\* file contributes exactly the findings of its own analysis, in file order, and
\* the call is not rejected.
C10_CrossFileIsolation ==
  \A c \in Calls :
    /\ pc[c] # "rejected"
    /\ pc[c] = "done" =>
         \A i \in DOMAIN project :
           FindingsIn(result[c], project[i].name)
             = IF FileFails(project[i], opts[c], config) THEN <<>>
               ELSE analyzeFile(project[i], opts[c], config).findings

\* A finished run in which a failing file precedes a file that contributes findings.
C10_Witness ==
  \E c \in Calls :
    /\ pc[c] = "done"
    /\ \E i, j \in DOMAIN project :
         /\ i < j
         /\ FileFails(project[i], opts[c], config)
         /\ ~FileFails(project[j], opts[c], config)
         /\ FindingsIn(result[c], project[j].name) # <<>>

EnhanceSucceeded == enhCall.status = "returned" /\ ~enhCall.failed

\* C11 as stated: after a successful enhancement with suggestions S, finding k
\* has suggestion S[k] for k within S and its own message for k beyond S.
C11_PairingMessageFallback ==
  EnhanceSucceeded =>
    \A k \in DOMAIN analysis.findings :
      analysis.findings[k].suggestion =
        IF k \in DOMAIN enhCall.suggestions THEN enhCall.suggestions[k]
        ELSE enhInput.findings[k].message

\* C12: for every finding list the score lies in [0, 10] (0..100 in tenths), and
\* the empty list scores exactly 10, under either implementation.
C12_ScoreRange ==
  scoreResult # <<>> =>
    /\ scoreResult[1] >= 0 /\ scoreResult[1] <= 100
    /\ scoreFindings = <<>> => scoreResult[1] = 100

\* A list so long that 10 minus its penalty is negative, scored by the core function.
C12_Witness ==
  /\ scoreBy = "core"
  /\ Len(scoreFindings) * 5 > 100
  /\ scoreResult = <<0>>

\* The list with the same number of error, warning and info findings, built from
\* one fixed finding per severity in a fixed order.
CanonicalFindings(findings) ==
  LET e == CountSeverity(findings, "error")
      w == CountSeverity(findings, "warning")
      n == Len(findings)
  IN [k \in 1..n |->
        IF k <= e THEN Finding("react-missing-key", ScoreFile)
        ELSE IF k <= e + w THEN Finding("typescript-any-usage", ScoreFile)
        ELSE Finding("missing-react-memo", ScoreFile)]

ScoreUnder(impl, findings) ==
  IF impl = "core" THEN calculateHealthScore(findings)
  ELSE ReactWebAnalyzer_calculateHealthScore(findings)

\* C13: the score depends only on how many error, warning and info findings the
\* list has: every list scores the same as the canonical list with its counts,
\* hence the same as every list with the same counts, whatever order, rule or file.
C13_ScoreBySeverityCounts ==
  scoreResult # <<>> =>
    scoreResult[1] = ScoreUnder(scoreBy, CanonicalFindings(scoreFindings))

\* A scored list that is out of severity order and has two warnings of different
\* rules and files.
C13_Witness ==
  /\ scoreResult # <<>>
  /\ scoreFindings # CanonicalFindings(scoreFindings)
  /\ \E j, k \in DOMAIN scoreFindings :
       /\ j < k
       /\ scoreFindings[j].severity = "info" /\ scoreFindings[k].severity = "error"
  /\ \E j, k \in DOMAIN scoreFindings :
       /\ scoreFindings[j].severity = "warning" /\ scoreFindings[k].severity = "warning"
       /\ scoreFindings[j].ruleId # scoreFindings[k].ruleId
       /\ scoreFindings[j].file # scoreFindings[k].file

\* C14: after any sequence of enhanceAnalysis calls, a result with aiEnhanced
\* true carries the model of the call that produced it: aiModel is present and
\* is the model of the service of the last call, which succeeded.
C14_ModelProvenance ==
  (enhCall.status = "returned" /\ analysis.aiEnhanced = <<TRUE>>) =>
    /\ analysis.aiModel \notin {Undefined, ""}
    /\ analysis.aiModel = enhCall.model
    /\ ~enhCall.failed

\* A result enhanced by one model is enhanced again by a service of another model.
C14_Witness ==
  /\ EnhanceSucceeded
  /\ enhInput.aiEnhanced = <<TRUE>>
  /\ enhInput.aiModel # enhCall.model
  /\ analysis.aiEnhanced = <<TRUE>>

\* C15: in the report built for a finding list, a finding whose ruleId is not in
\* the rule catalog is in no group of the category breakdown, and it is counted
\* in the severity totals.
C15_UnknownRuleUngrouped ==
  metrics.built =>
    /\ \A i \in DOMAIN scoreFindings :
         scoreFindings[i].ruleId \notin DOMAIN getSupportedPatterns =>
           \A c \in DOMAIN metrics.ruleBreakdown :
             scoreFindings[i] \notin Range(metrics.ruleBreakdown[c])
    /\ metrics.errorCount + metrics.warningCount + metrics.infoCount
         = Len(scoreFindings)

\* C16: the analyze command ends with a non-zero exit code only when the project
\* path does not exist; every other analysis run prints a report and exits 0.
C16_NonZeroExitOnlyForMissingPath ==
  (cli.pc = "exited" /\ cli.mode = "analyze") =>
    IF cli.pathExists THEN cli.reported /\ cli.exit = <<0>>
    ELSE cli.exit # <<0>>


\* The failed external call of the last enhanceAnalysis, the prompt having been
\* built.
TransportFailed ==
  /\ enhCall.status = "returned"
  /\ enhCall.kind # "text"
  /\ Truthy(enhInput.metadata)

Occurrences(line, matcher) ==
  IF matcher = "checkAnyUsage"
    THEN {StartOf(line, i) + line[i].anyAt[p] :
            <<i, p>> \in {<<j, q>> \in (DOMAIN line) \X (1..4) :
                            line[j].anyAt[q] # NoMatchAt}}
  ELSE IF matcher = "checkAnonymousFunctions"
    THEN {StartOf(line, i) : i \in {j \in DOMAIN line : line[j].anonBy # {}}}
  ELSE IF InlineObjectLine(line)
    THEN {StartOf(line, i) : i \in {j \in DOMAIN line : line[j].inline # ""}}
  ELSE {}

\* C18: on a line with k >= 1 occurrences of its pattern a line-based matcher
\* emits exactly k findings, and their columns are the k 1-indexed start
\* offsets of the occurrences.
C18_FindingPerOccurrence ==
  lineCheck.pc = "done" =>
    LET occurrences == Occurrences(lineCheck.line, lineCheck.matcher)
        findings == lineCheck.findings
    IN occurrences # {} =>
         /\ Len(findings) = Cardinality(occurrences)
         /\ {findings[k].column : k \in DOMAIN findings}
              = {o + 1 : o \in occurrences}


\* Strategy n succeeds on the text, and what it then yields, read off the text.
StrategySucceeds(n, text) ==
  IF n = 1 THEN text.whole.type \notin {"nomatch", "invalid"}
  ELSE IF n = 2 THEN text.fenced.type \notin {"nomatch", "invalid"}
  ELSE IF n = 3 THEN text.braces.type \notin {"nomatch", "invalid"}
  ELSE IF n = 4
    THEN \E i \in DOMAIN text.fragments :
           /\ text.fragments[i].type = "object"
           /\ \/ text.fragments[i].summary \notin {Undefined, ""}
              \/ text.fragments[i].hasSuggestions
              \/ text.fragments[i].hasInsights
  ELSE TRUE

StrategyYields(n, text) ==
  IF n = 1 THEN text.whole
  ELSE IF n = 2 THEN text.fenced
  ELSE IF n = 3 THEN text.braces
  ELSE IF n = 4
    THEN LET good == {i \in DOMAIN text.fragments :
                        /\ text.fragments[i].type = "object"
                        /\ \/ text.fragments[i].summary \notin {Undefined, ""}
                           \/ text.fragments[i].hasSuggestions
                           \/ text.fragments[i].hasInsights}
         IN text.fragments[CHOOSE i \in good : \A j \in good : i <= j]
  ELSE text.heuristic

\* C19: parseClaudeResponse attempts its strategies in the order 1, 2, 3, 4, 5;
\* a strategy is attempted only after every strategy before it failed; the
\* value returned is the result of the first strategy that succeeds.
C19_StrategyOrder ==
  parse.pc \in {"running", "returned"} =>
    LET text == parse.text
        tried == parse.tried
    IN /\ tried = [k \in 1..Len(tried) |-> k]
       /\ Len(tried) <= 5
       /\ \A n \in 1..Len(tried) : \A m \in 1..(n - 1) : ~StrategySucceeds(m, text)
       /\ parse.pc = "running" =>
            /\ parse.value = <<>>
            /\ \A n \in 1..Len(tried) : ~StrategySucceeds(n, text)
       /\ parse.pc = "returned" =>
            /\ tried # <<>>
            /\ StrategySucceeds(Len(tried), text)
            /\ parse.value = <<StrategyYields(Len(tried), text)>>
            /\ parse.value = <<parseClaudeResponse(text)>>

C19_Witness ==
  /\ parse.pc = "returned"
  /\ parse.tried = <<1, 2>>
  /\ StrategySucceeds(3, parse.text)
  /\ parse.text.braces # parse.text.fenced
  /\ parse.value = <<parse.text.fenced>>

\* C20: the value parseClaudeResponse returns is an object that has at least
\* one of the keys summary, suggestions and insights.
C20_StructurallyValid ==
  parse.pc = "returned" =>
    /\ parse.value[1].type = "object"
    /\ \/ parse.value[1].summary # Undefined
       \/ parse.value[1].hasSuggestions
       \/ parse.value[1].hasInsights


\* C21: extractInsightsFromText returns one to three suggestions, each
\* non-empty, the generic one when cleaning removed them all, and a summary of
\* at most 200 characters that ends in an ellipsis exactly when the extracted
\* summary was longer.
C21_ExtractedInsightsBounded ==
  extract.pc = "done" =>
    LET suggestions == extract.result.suggestions
        summary == extract.result.summary
        extracted == ExtractedSummary(extract.text)
        kept == {i \in DOMAIN ExtractedSuggestions(extract.text) :
                   ExtractedSuggestions(extract.text)[i].core > 5}
    IN /\ Len(suggestions) >= 1
       /\ Len(suggestions) <= 3
       /\ \A i \in DOMAIN suggestions : Length(suggestions[i]) > 0
       /\ kept = {} => suggestions = <<Str(0, 45, 0)>>
       /\ summary.len <= 200
       /\ summary.ellipsis <=> extracted > 200
       /\ ~summary.ellipsis => summary.len = extracted

C21_Witness ==
  /\ extract.pc = "done"
  /\ extract.text.jsonMatch
  /\ \E i \in DOMAIN extract.text.jsonPieces : Length(extract.text.jsonPieces[i]) > 5
  /\ \A i \in DOMAIN extract.text.jsonPieces : extract.text.jsonPieces[i].core <= 5
  /\ extract.result.suggestions = <<Str(0, 45, 0)>>


RuleIdsOf(findings) == {findings[i].ruleId : i \in DOMAIN findings}

\* C22: for a file whose syntax tree cannot be built, the rules evaluated are
\* those evaluated when it can: on a file in which the pattern of every rule
\* occurs, the rules reported are the same in both cases.
C22_ParseFailureKeepsRuleSet ==
  \A c \in Calls :
    pc[c] = "done" =>
      \A i \in DOMAIN project :
        (project[i].readable /\ ~project[i].parses /\ project[i].throwers = {})
          => RuleIdsOf(FindingsIn(result[c], project[i].name))
               = RuleIdsOf(analyzeFile([project[i] EXCEPT !.parses = TRUE],
                                       opts[c], config).findings)


IdentityFields == {"ruleId", "message", "severity", "file", "line", "column"}

\* The findings of the result agree with those of the argument in number,
\* order and identity fields, and the healthScore is the argument's.
EnhanceFrame ==
  enhCall.status = "returned" =>
    /\ Len(analysis.findings) = Len(enhInput.findings)
    /\ \A i \in DOMAIN enhInput.findings : \A field \in IdentityFields :
         analysis.findings[i][field] = enhInput.findings[i][field]
    /\ analysis.healthScore = enhInput.healthScore

C24_OneRequestPerCall ==
  enhCall.status # "none" => enhCall.requests = 1


\* The preset that follows the active one in the order minimal, recommended,
\* strict.
NextStricter == IF config.presets = "minimal" THEN "recommended" ELSE "strict"

SeverityRank(sev) ==
  CASE sev = "info" -> 1
    [] sev = "warning" -> 2
    [] sev = "error" -> 3

\* C25: a rule enabled under the active preset and under the next stricter one
\* has, under the active preset, a severity no stricter than under the next.
C25_PresetSeverityOrder ==
  config.presets \in {"minimal", "recommended"} =>
    \A r \in Rules :
      LET stricter == applyPreset(NextStricter).value
      IN (isRuleEnabled(r, config) /\ isRuleEnabled(r, stricter))
           => SeverityRank(config.rules[r].severity)
                <= SeverityRank(stricter.rules[r].severity)

\* C26: every rule enabled under the active preset is enabled under the next
\* stricter one: minimal within recommended, recommended within strict.
C26_PresetCoverageNested ==
  config.presets \in {"minimal", "recommended"} =>
    \A r \in Rules \cup {"performance-heavy-computation"} :
      isRuleEnabled(r, config) => isRuleEnabled(r, applyPreset(NextStricter).value)

\* A run under minimal that reported a rule which minimal enables.
C26_Witness ==
  /\ pc["c1"] = "done"
  /\ opts["c1"].preset = "minimal"
  /\ config.presets = "minimal"
  /\ "typescript-any-usage" \in ReportedRules(result["c1"])


\* C27: a call without a preset option evaluates the rules under the default
\* (recommended) configuration, whatever presets earlier calls on the instance
\* used.
C27_NoPresetRunsDefault ==
  \A c \in Calls :
    (pc[c] = "done" /\ opts[c].preset = NoPreset)
      => result[c].findings = analyzeFiles(project, opts[c], DEFAULT_CONFIG).findings

\* C28: of two calls in flight on one instance, each evaluates its files under
\* its own preset: its findings are those of the call run alone.
C28_ConcurrentCallsOwnPreset ==
  \A c \in Calls :
    (pc[c] = "done" /\ opts[c].preset \in PresetNames)
      => result[c].findings
           = analyzeFiles(project, opts[c], applyPreset(opts[c].preset).value).findings


\* No two entries of the list agree in ruleId, file, line and column.
NoDuplicates(findings, file) ==
  \A i, j \in DOMAIN findings :
    (/\ findings[i].ruleId = findings[j].ruleId
     /\ file[i] = file[j]
     /\ findings[i].line = findings[j].line
     /\ findings[i].column = findings[j].column) => i = j

\* C29: the findings of a run, and the findings a line-based matcher returns
\* for a line, never hold two findings with the same ruleId, file, line and
\* column.
C29_NoDuplicateFindings ==
  /\ \A c \in Calls :
       pc[c] = "done" =>
         NoDuplicates(result[c].findings,
                      [i \in DOMAIN result[c].findings |-> result[c].findings[i].file])
  /\ lineCheck.pc = "done" =>
       NoDuplicates(lineCheck.findings, [i \in DOMAIN lineCheck.findings |-> "line"])


\* C30: a result of enhanceAnalysis never has aiEnhanced = true together with
\* an aiError, also when its argument came from an earlier failed enhancement.
C30_EnhancedHasNoError ==
  (enhCall.status = "returned" /\ analysis.aiEnhanced = <<TRUE>>)
    => analysis.aiError = Undefined

====
